---- MODULE Spec2Model ----
(***************************************************************************)
(* The AlphaBetaPruning engine of strategies.py: search (the driver),      *)
(* alphabeta_search, quiescence_search, evaluate_position and              *)
(* move_ordering_sort, run as an explicit call stack over a bounded game   *)
(* graph that stands for the python-chess board.                           *)
(*                                                                         *)
(* Names are bound as the calls in the source intend them:                 *)
(* move_ordering_sort is applied to the board it is handed, chess.WHITE is *)
(* the white colour, and the module-level counters total_branches_pruned   *)
(* and total_quiescence_positions_evaluated exist (they are write-only and *)
(* are not part of the state below).                                       *)
(***************************************************************************)
EXTENDS Integers, Sequences, FiniteSets, TLC

\* Largest depth argument of a direct alphabeta_search call.
MaxDepth == 2

\* math.inf: larger than every score the evaluator can return.
Inf == 1000

\* The depth search() passes to alphabeta_search.
DriverDepth == 4

\* The extension depth alphabeta_search passes to quiescence_search.
QuiescenceDepth == 3

\* The score of a decided game.
WinScore == 300

\* return (None, eval): the move of a call that searched no move.
None == 0 - 1

\* best_move = '': the move before any candidate was accepted.
EmptyMove == 0

(***************************************************************************)
(* The position model (python-chess Board): a graph of positions.  A move  *)
(* is named by the position it leads to.                                   *)
(***************************************************************************)
Pos == 1..15

\* board.legal_moves of every position, in the library's enumeration order.
LegalMoves ==
  << <<2, 3, 4>>,   \*  1
     <<5, 6>>,      \*  2
     <<6, 7>>,      \*  3
     <<7, 8>>,      \*  4
     <<9>>,         \*  5
     <<9, 10>>,     \*  6
     <<10, 11>>,    \*  7
     <<10, 15>>,    \*  8
     <<12>>,        \*  9
     <<12, 13>>,    \* 10
     <<13, 14>>,    \* 11
     <<13, 14>>,    \* 12
     <<14, 15>>,    \* 13
     <<>>,          \* 14
     <<>> >>        \* 15

\* The moves board.is_capture answers True for, as <<from, to>>.
CaptureMoves ==
  { <<1, 3>>, <<2, 6>>, <<3, 7>>, <<6, 9>>, <<7, 10>>, <<7, 11>>, <<9, 12>>,
    <<10, 13>>, <<11, 13>>, <<12, 13>>, <<13, 14>> }

\* board.board_fen() strings, as sequences of characters.
FenLevel  == <<"k", "2", "/", "3", "/", "2", "K">>
FenPawnUp == <<"k", "2", "/", "P", "2", "/", "2", "K">>
FenPawnDn == <<"k", "2", "/", "p", "2", "/", "2", "K">>
FenMinor  == <<"k", "2", "/", "N", "p", "1", "/", "P", "1", "K">>
FenMinorDn == <<"k", "b", "1", "/", "3", "/", "2", "K">>
FenRook   == <<"k", "2", "/", "R", "2", "/", "2", "K">>
FenRookDn == <<"k", "r", "1", "/", "3", "/", "2", "K">>
FenQueen  == <<"k", "2", "/", "Q", "2", "/", "2", "K">>

\* The positions of the graph before the free ones are drawn.
DefaultFen ==
  << FenLevel, FenLevel, FenPawnUp, FenLevel, FenPawnDn, FenMinor, FenMinorDn,
     FenPawnUp, FenRook, FenRookDn, FenQueen, FenLevel, FenMinor, FenQueen,
     FenRookDn >>

\* What ends a game: checkmate of the side to move, or a draw (stalemate
\* when no move is legal; insufficient material, repetition or the move
\* counters when there is one).
\* The positions whose placement or outcome Init draws.
FreeFen(n) ==
  CASE n = 12 -> {FenLevel}
    [] n = 13 -> {FenMinor}
    [] OTHER  -> {DefaultFen[n]}

FreeStatus(n) ==
  CASE n = 14 -> {"checkmate", "draw"}
    [] n = 15 -> {"checkmate", "draw"}
    [] n = 9  -> {"ongoing", "draw"}
    [] OTHER  -> {"ongoing"}

RECURSIVE Reach(_, _)
Reach(n, k) ==
  IF k = 0 THEN {n}
  ELSE {n} \cup UNION {Reach(LegalMoves[n][i], k - 1) : i \in 1..Len(LegalMoves[n])}

VARIABLES
  game,    \* per position: [fen, status], what the board reports there
  board,   \* [root, turn, move_stack, pushes, pops]; turn: white is to move
  stack,   \* the call stack of alphabeta_search / quiescence_search frames
  ret,     \* the value of the call that returned last, until it is consumed
  pc,      \* "idle", "running", "done"
  call,    \* the arguments of the outermost call
  result,  \* what the outermost call handed to its caller
  prev     \* (move, eval) of the previous identical call, if any

vars == <<game, board, stack, ret, pc, call, result, prev>>

Range(s) == {s[i] : i \in 1..Len(s)}

Max(a, b) == IF a >= b THEN a ELSE b
Min(a, b) == IF a <= b THEN a ELSE b

NoRet == [move |-> None, eval |-> 0, from |-> "none"]
NoCall == [fn |-> "none", depth |-> 0, alpha |-> 0, beta |-> 0]
NoResult == [raised |-> "None", move |-> None, ponder |-> None]

(***************************************************************************)
(* The board interface the engine uses.                                    *)
(***************************************************************************)
position(b) ==
  IF b.move_stack = <<>> THEN b.root ELSE b.move_stack[Len(b.move_stack)]

legal_moves(b) == LegalMoves[position(b)]

is_capture(b, move) == <<position(b), move>> \in CaptureMoves

push(b, move) ==
  [b EXCEPT !.move_stack = Append(@, move), !.turn = ~@, !.pushes = @ + 1]

pop(b) ==
  [b EXCEPT !.move_stack = SubSeq(@, 1, Len(@) - 1), !.turn = ~@, !.pops = @ + 1]

\* board.outcome(), as its result() string; "None" while the game goes on.
\* Checkmate is lost by the side to move.
outcome(b) ==
  CASE game[position(b)].status = "ongoing" -> "None"
    [] game[position(b)].status = "draw" -> "1/2-1/2"
    [] game[position(b)].status = "checkmate" -> IF b.turn THEN "0-1" ELSE "1-0"

is_game_over(b) == outcome(b) # "None"

board_fen(b) == game[position(b)].fen

(***************************************************************************)
(* evaluate_position                                                       *)
(***************************************************************************)
piece_values ==
  [p |-> 0 - 1, P |-> 1, r |-> 0 - 5, R |-> 5, n |-> 0 - 3, N |-> 3,
   b |-> 0 - 3, B |-> 3, q |-> 0 - 9, Q |-> 9]

RECURSIVE SumFen(_)
SumFen(fen_string) ==
  IF fen_string = <<>> THEN 0
  ELSE LET char == Head(fen_string)
       IN (IF char \in DOMAIN piece_values THEN piece_values[char] ELSE 0)
          + SumFen(Tail(fen_string))

evaluate_positionSwapped(b) ==
  IF outcome(b) = "None" THEN SumFen(board_fen(b))
  ELSE IF outcome(b) = "1-0" THEN 0 - WinScore
  ELSE IF outcome(b) = "0-1" THEN WinScore
  ELSE 0

evaluate_position(b) ==
  IF outcome(b) = "None" THEN SumFen(board_fen(b))
  ELSE IF outcome(b) = "1-0" THEN WinScore
  ELSE IF outcome(b) = "0-1" THEN 0 - WinScore
  ELSE 0

(***************************************************************************)
(* move_ordering_sort                                                      *)
(***************************************************************************)
move_ordering_sort(b, only_captures) ==
  LET moves_list == legal_moves(b)
      IsCap(m) == is_capture(b, m)
      NotCap(m) == ~is_capture(b, m)
      captures == SelectSeq(moves_list, IsCap)
      temp_list == SelectSeq(moves_list, NotCap)
  IN IF only_captures THEN captures ELSE captures \o temp_list

\* random.shuffle: every order of the list.
Shuffles(moves_list) ==
  {s \in [1..Len(moves_list) -> Range(moves_list)] : Range(s) = Range(moves_list)}

(***************************************************************************)
(* The pieces of the two search loops.                                     *)
(***************************************************************************)
InitBestEvalSwapped(white_to_move) == IF white_to_move THEN Inf ELSE 0 - Inf

\* best_eval = -math.inf if white_to_move else math.inf
InitBestEval(white_to_move) == IF white_to_move THEN 0 - Inf ELSE Inf

ImprovesWhiteOnly(white_to_move, current_eval, best_eval) ==
  current_eval > best_eval

ImprovesOrTies(white_to_move, current_eval, best_eval) ==
  IF white_to_move THEN current_eval >= best_eval ELSE current_eval <= best_eval

\* if(current_eval > best_eval) for white, if(current_eval < best_eval) for black
Improves(white_to_move, current_eval, best_eval) ==
  IF white_to_move THEN current_eval > best_eval ELSE current_eval < best_eval

\* alpha = max(alpha, current_eval), in the white loop only
NewAlpha(white_to_move, alpha, current_eval) ==
  IF white_to_move THEN Max(alpha, current_eval) ELSE alpha

\* beta = min(beta, current_eval), in the black loop only
NewBeta(white_to_move, beta, current_eval) ==
  IF white_to_move THEN beta ELSE Min(beta, current_eval)

CutoffAlways(alpha, beta) == TRUE

\* if(alpha >= beta): break
Cutoff(alpha, beta) == alpha >= beta

PopUnlessCutoff(b, alpha, beta) == IF alpha >= beta THEN b ELSE pop(b)

\* board.pop(), before the bounds are updated and the cutoff is tested
PopAfterChild(b, alpha, beta) == pop(b)

AlphaBetaStops(b, depth) == depth = 0 \/ is_game_over(b)

QuiescenceStopsNoDepth(b, moves_list, depth) ==
  is_game_over(b) \/ moves_list = <<>>

\* if(board.is_game_over() or moves_list == [] or depth == 0)
QuiescenceStops(b, moves_list, depth) ==
  is_game_over(b) \/ moves_list = <<>> \/ depth = 0

NewFrame(fn, depth, white_to_move, alpha, beta) ==
  [fn |-> fn, depth |-> depth, white_to_move |-> white_to_move,
   alpha |-> alpha, beta |-> beta, moves_list |-> <<>>, idx |-> 1,
   best_eval |-> 0, best_move |-> EmptyMove, at |-> "entry"]

Top == stack[Len(stack)]
SetTop(f) == [stack EXCEPT ![Len(stack)] = f]
Popped == SubSeq(stack, 1, Len(stack) - 1)

\* Lines 175-188 and 197-206 (250-263, 272-283): the loop body after the
\* recursive call returned current_eval.
Backup(f, current_eval) ==
  LET better == Improves(f.white_to_move, current_eval, f.best_eval)
      alpha == NewAlpha(f.white_to_move, f.alpha, current_eval)
      beta == NewBeta(f.white_to_move, f.beta, current_eval)
  IN [f EXCEPT !.best_eval = IF better THEN current_eval ELSE @,
               !.best_move = IF better THEN f.moves_list[f.idx] ELSE @,
               !.alpha = alpha,
               !.beta = beta,
               !.idx = @ + 1,
               !.at = IF Cutoff(alpha, beta) THEN "break" ELSE "loop"]

(***************************************************************************)
(* Initial states: a board set up on any position of the graph, nothing    *)
(* called yet.  Positions the board cannot reach keep their default.       *)
(***************************************************************************)
Horizon == DriverDepth + QuiescenceDepth

DefaultStatus(n) == IF LegalMoves[n] = <<>> THEN "draw" ELSE "ongoing"

NoPrev == [move |-> None, eval |-> 0, set |-> FALSE]

Init ==
  /\ \E root \in Pos, turn \in BOOLEAN :
       /\ board = [root |-> root, turn |-> turn, move_stack |-> <<>>,
                   pushes |-> 0, pops |-> 0]
       /\ \E f12 \in FreeFen(12), f13 \in FreeFen(13), o9 \in FreeStatus(9),
             o14 \in FreeStatus(14), o15 \in FreeStatus(15) :
            LET seen == Reach(root, Horizon)
                fen(n) == CASE n = 12 -> f12 [] n = 13 -> f13 [] OTHER -> DefaultFen[n]
                out(n) == CASE n = 9 -> o9 [] n = 14 -> o14 [] n = 15 -> o15
                            [] OTHER -> "ongoing"
            IN game = [n \in Pos |->
                        IF n \in seen
                        THEN [fen |-> fen(n), status |-> out(n)]
                        ELSE [fen |-> DefaultFen[n], status |-> DefaultStatus(n)]]
  /\ stack = <<>>
  /\ ret = NoRet
  /\ pc = "idle"
  /\ call = NoCall
  /\ result = NoResult
  /\ prev = NoPrev

(***************************************************************************)
(* Calls from outside.                                                     *)
(***************************************************************************)
Alphas == {0 - Inf, 2}
Betas == {1, Inf}

Start(c) ==
  /\ pc' = "running"
  /\ call' = c
  /\ stack' = <<NewFrame("alphabeta_search", c.depth, board.turn, c.alpha, c.beta)>>
  /\ board' = [board EXCEPT !.pushes = 0, !.pops = 0]
  /\ ret' = NoRet
  /\ result' = NoResult
  /\ UNCHANGED game

\* search(board): alphabeta_search(board, 4, board.turn == chess.WHITE, -inf, inf)
Search ==
  /\ pc = "idle"
  /\ Start([fn |-> "search", depth |-> DriverDepth, alpha |-> 0 - Inf, beta |-> Inf])
  /\ prev' = NoPrev

\* alphabeta_search called with a depth and bounds of the caller's choice
CallAlphaBeta ==
  /\ pc = "idle"
  /\ \E depth \in 0..MaxDepth, alpha \in Alphas, beta \in Betas :
       Start([fn |-> "alphabeta_search", depth |-> depth, alpha |-> alpha,
              beta |-> beta])
  /\ prev' = NoPrev

\* the same call once more on the unmodified position
Repeat ==
  /\ pc = "done"
  /\ Start(call)
  /\ prev' = [move |-> ret.move, eval |-> ret.eval, set |-> TRUE]

(***************************************************************************)
(* alphabeta_search                                                        *)
(***************************************************************************)
InAlphaBeta(at) ==
  /\ pc = "running"
  /\ stack # <<>>
  /\ Top.fn = "alphabeta_search"
  /\ Top.at = at

\* depth == 0 or game over: eval = self.quiescence_search(board, ..., 3)[1]
AlphaBetaBase ==
  /\ InAlphaBeta("entry")
  /\ AlphaBetaStops(board, Top.depth)
  /\ stack' = Append(SetTop([Top EXCEPT !.at = "leaf"]),
                     NewFrame("quiescence_search", QuiescenceDepth,
                              Top.white_to_move, Top.alpha, Top.beta))
  /\ UNCHANGED <<game, board, ret, pc, call, result, prev>>

\* return (None, eval)
AlphaBetaBaseReturn ==
  /\ InAlphaBeta("leaf")
  /\ ret.from # "none"
  /\ stack' = Popped
  /\ ret' = [move |-> None, eval |-> ret.eval, from |-> "alphabeta_base"]
  /\ UNCHANGED <<game, board, pc, call, result, prev>>

\* moves_list = move_ordering_sort(...); random.shuffle(moves_list); best_* = ...
AlphaBetaShuffle ==
  /\ InAlphaBeta("entry")
  /\ ~AlphaBetaStops(board, Top.depth)
  /\ \E moves_list \in Shuffles(move_ordering_sort(board, FALSE)) :
       stack' = SetTop([Top EXCEPT !.moves_list = moves_list,
                                   !.best_eval = InitBestEval(Top.white_to_move),
                                   !.best_move = EmptyMove,
                                   !.idx = 1,
                                   !.at = "loop"])
  /\ UNCHANGED <<game, board, ret, pc, call, result, prev>>

\* board.push(move); self.alphabeta_search(board, depth - 1, not white, alpha, beta)
AlphaBetaPush ==
  /\ InAlphaBeta("loop")
  /\ Top.idx <= Len(Top.moves_list)
  /\ board' = push(board, Top.moves_list[Top.idx])
  /\ stack' = Append(SetTop([Top EXCEPT !.at = "await"]),
                     NewFrame("alphabeta_search", Top.depth - 1,
                              ~Top.white_to_move, Top.alpha, Top.beta))
  /\ UNCHANGED <<game, ret, pc, call, result, prev>>

\* the rest of the loop body, once the recursive call has returned
AlphaBetaBackup ==
  /\ InAlphaBeta("await")
  /\ ret.from # "none"
  /\ LET f == Backup(Top, ret.eval)
     IN /\ stack' = SetTop(f)
        /\ board' = PopAfterChild(board, f.alpha, f.beta)
  /\ ret' = NoRet
  /\ UNCHANGED <<game, pc, call, result, prev>>

\* return (best_move, best_eval), after the last move or after a break
AlphaBetaReturn ==
  /\ \/ InAlphaBeta("break")
     \/ InAlphaBeta("loop") /\ Top.idx > Len(Top.moves_list)
  /\ stack' = Popped
  /\ ret' = [move |-> Top.best_move, eval |-> Top.best_eval, from |-> "alphabeta"]
  /\ UNCHANGED <<game, board, pc, call, result, prev>>

(***************************************************************************)
(* quiescence_search                                                       *)
(***************************************************************************)
InQuiescence(at) ==
  /\ pc = "running"
  /\ stack # <<>>
  /\ Top.fn = "quiescence_search"
  /\ Top.at = at

\* game over, no capture, or depth == 0: return (None, evaluate_position(board))
QuiescenceBase ==
  /\ InQuiescence("entry")
  /\ QuiescenceStops(board, move_ordering_sort(board, TRUE), Top.depth)
  /\ stack' = Popped
  /\ ret' = [move |-> None, eval |-> evaluate_position(board), from |-> "evaluate"]
  /\ UNCHANGED <<game, board, pc, call, result, prev>>

\* the capture list is searched in the order move_ordering_sort gives
QuiescenceExpand ==
  /\ InQuiescence("entry")
  /\ ~QuiescenceStops(board, move_ordering_sort(board, TRUE), Top.depth)
  /\ stack' = SetTop([Top EXCEPT !.moves_list = move_ordering_sort(board, TRUE),
                                 !.best_eval = InitBestEval(Top.white_to_move),
                                 !.best_move = EmptyMove,
                                 !.idx = 1,
                                 !.at = "loop"])
  /\ UNCHANGED <<game, board, ret, pc, call, result, prev>>

\* board.push(move); self.quiescence_search(board, not white, alpha, beta, depth - 1)
QuiescencePush ==
  /\ InQuiescence("loop")
  /\ Top.idx <= Len(Top.moves_list)
  /\ board' = push(board, Top.moves_list[Top.idx])
  /\ stack' = Append(SetTop([Top EXCEPT !.at = "await"]),
                     NewFrame("quiescence_search", Top.depth - 1,
                              ~Top.white_to_move, Top.alpha, Top.beta))
  /\ UNCHANGED <<game, ret, pc, call, result, prev>>

QuiescenceBackup ==
  /\ InQuiescence("await")
  /\ ret.from # "none"
  /\ LET f == Backup(Top, ret.eval)
     IN /\ stack' = SetTop(f)
        /\ board' = PopAfterChild(board, f.alpha, f.beta)
  /\ ret' = NoRet
  /\ UNCHANGED <<game, pc, call, result, prev>>

\* return (best_move, best_eval)
QuiescenceReturn ==
  /\ \/ InQuiescence("break")
     \/ InQuiescence("loop") /\ Top.idx > Len(Top.moves_list)
  /\ stack' = Popped
  /\ ret' = [move |-> Top.best_move, eval |-> Top.best_eval, from |-> "quiescence"]
  /\ UNCHANGED <<game, board, pc, call, result, prev>>

(***************************************************************************)
(* The outermost call returns to its caller.                               *)
(***************************************************************************)
\* return PlayResult(self.alphabeta_search(...)[0], None)
PlayResultReturn ==
  /\ pc = "running"
  /\ stack = <<>>
  /\ call.fn = "search"
  /\ result' = [raised |-> "None", move |-> ret.move, ponder |-> None]
  /\ pc' = "done"
  /\ UNCHANGED <<game, board, stack, ret, call, prev>>

AlphaBetaDone ==
  /\ pc = "running"
  /\ stack = <<>>
  /\ call.fn = "alphabeta_search"
  /\ pc' = "done"
  /\ UNCHANGED <<game, board, stack, ret, call, result, prev>>

Step ==
  \/ AlphaBetaBase
  \/ AlphaBetaBaseReturn
  \/ AlphaBetaShuffle
  \/ AlphaBetaPush
  \/ AlphaBetaBackup
  \/ AlphaBetaReturn
  \/ QuiescenceBase
  \/ QuiescenceExpand
  \/ QuiescencePush
  \/ QuiescenceBackup
  \/ QuiescenceReturn
  \/ PlayResultReturn
  \/ AlphaBetaDone

Next ==
  \/ Search
  \/ CallAlphaBeta
  \/ Repeat
  \/ Step

Spec == Init /\ [][Next]_vars

\* The search is one synchronous computation: a step that can be taken is taken.
FairSpec == Spec /\ WF_vars(Step)

\* Every search that was started returns.
Terminates == (pc = "running") ~> (pc = "done")

(***************************************************************************)
(* The reference the claims compare the search with: full-width minimax,   *)
(* no bounds and no pruning, over the same board interface and evaluator.  *)
(***************************************************************************)
SetMax(S) == CHOOSE x \in S : \A y \in S : y <= x
SetMin(S) == CHOOSE x \in S : \A y \in S : x <= y

Captures(b) == {m \in Range(legal_moves(b)) : is_capture(b, m)}

RECURSIVE QuiescenceMinimax(_, _, _)
QuiescenceMinimax(b, white, depth) ==
  IF is_game_over(b) \/ Captures(b) = {} \/ depth = 0
  THEN evaluate_position(b)
  ELSE LET vals == {QuiescenceMinimax(push(b, m), ~white, depth - 1) : m \in Captures(b)}
       IN IF white THEN SetMax(vals) ELSE SetMin(vals)

RECURSIVE Minimax(_, _, _)
Minimax(b, depth, white) ==
  IF depth = 0 \/ is_game_over(b)
  THEN QuiescenceMinimax(b, white, QuiescenceDepth)
  ELSE LET vals == {Minimax(push(b, m), depth - 1, ~white) : m \in Range(legal_moves(b))}
       IN IF white THEN SetMax(vals) ELSE SetMin(vals)

\* The number of moves a search that never breaks out of a loop would push.
RECURSIVE QuiescencePushes(_, _)
QuiescencePushes(b, depth) ==
  IF is_game_over(b) \/ Captures(b) = {} \/ depth = 0 THEN 0
  ELSE LET kids == Captures(b)
           sub[S \in SUBSET kids] ==
             IF S = {} THEN 0
             ELSE LET m == CHOOSE x \in S : TRUE
                  IN 1 + QuiescencePushes(push(b, m), depth - 1) + sub[S \ {m}]
       IN sub[kids]

RECURSIVE FullWidthPushes(_, _)
FullWidthPushes(b, depth) ==
  IF depth = 0 \/ is_game_over(b) THEN QuiescencePushes(b, QuiescenceDepth)
  ELSE LET kids == Range(legal_moves(b))
           sub[S \in SUBSET kids] ==
             IF S = {} THEN 0
             ELSE LET m == CHOOSE x \in S : TRUE
                  IN 1 + FullWidthPushes(push(b, m), depth - 1) + sub[S \ {m}]
       IN sub[kids]

Done == pc = "done"
FullWindow == call.alpha = 0 - Inf /\ call.beta = Inf
Recursive == call.depth >= 1 /\ ~is_game_over(board)
Pruned == board.pushes < FullWidthPushes(board, call.depth)

\* The minimax value of the position a move of the root leads to.
MoveValue(m) == Minimax(push(board, m), call.depth - 1, ~board.turn)

\* The moves of the root that leave white the winner at once.
MatingMoves ==
  {m \in Range(legal_moves(board)) : outcome(push(board, m)) = "1-0"}

Awaiting == {i \in 1..Len(stack) : stack[i].at = "await"}

C4_NoLegalMovesRaised ==
  (Done /\ call.fn = "search" /\ legal_moves(board) = <<>>)
    => result.raised = "NoLegalMoves"

C8_TerminalScores ==
  (ret.from = "evaluate" /\ is_game_over(board))
    => ret.eval = CASE outcome(board) = "1/2-1/2" -> 0
                    [] outcome(board) = "1-0" -> 300
                    [] outcome(board) = "0-1" -> 0 - 300

C8_Witness ==
  /\ ret.from = "evaluate"
  /\ outcome(board) = "0-1"
  /\ SumFen(board_fen(board)) > 0
  /\ legal_moves(board) = <<>>
  /\ ret.eval = 0 - 300

====
